---- MODULE Spec2Model ----
(***************************************************************************)
(* Model of the dns-resolver repository: the DNS wire codec (src/dns.rs,   *)
(* src/buffer.rs), the iterative resolver (src/resolver.rs), the older     *)
(* reader (src/dns/buffer.rs), and the listener with the task it spawns    *)
(* for each query (src/main.rs, src/solver.rs).                            *)
(*                                                                         *)
(* Bytes are integers 0..255, byte strings are sequences of bytes, and a   *)
(* Rust String is the sequence of its UTF-8 bytes ("." is the byte 46).    *)
(* Result<T, E> values are records with a field ok.                        *)
(***************************************************************************)
EXTENDS Integers, Sequences, FiniteSets, TLC

VARIABLES
    fpc, flagsIn, flagsRaw, flagsOut,          \* flag packing
    npc, data, start, nres, offset,            \* name decoding, seek
    cmode, cpc, msg, wire, plain, dec,         \* message codec
    decPlain, reenc,
    call, stack, sent, retval, seen, exhausted, \* resolver
    arrived, listening, tasks, outgoing,        \* listener and its tasks
    recv_buf

flagVars  == <<fpc, flagsIn, flagsRaw, flagsOut>>
nameVars  == <<npc, data, start, nres, offset>>
codecVars == <<cmode, cpc, msg, wire, plain, dec, decPlain, reenc>>
resVars   == <<call, stack, sent, retval, seen, exhausted>>
srvVars   == <<arrived, listening, tasks, outgoing, recv_buf>>
vars      == <<flagVars, nameVars, codecVars, resVars, srvVars>>

(***************************************************************************)
(* Fixed-width integer arithmetic                                          *)
(***************************************************************************)
Pow2(n) == <<1, 2, 4, 8, 16, 32, 64, 128, 256, 512, 1024, 2048, 4096, 8192,
             16384, 32768>>[n + 1]

Bit(a, i) == (a \div Pow2(i)) % 2

\* a | b and a & b on n-bit values (n <= 16), bit by bit
BitOr(a, b, n) ==
    LET t(i) == IF i < n /\ (Bit(a, i) = 1 \/ Bit(b, i) = 1) THEN Pow2(i) ELSE 0
    IN  ((t(0) + t(1)) + (t(2) + t(3))) + ((t(4) + t(5)) + (t(6) + t(7)))
        + (((t(8) + t(9)) + (t(10) + t(11))) + ((t(12) + t(13)) + (t(14) + t(15))))

BitAnd(a, b, n) ==
    LET t(i) == IF i < n /\ Bit(a, i) = 1 /\ Bit(b, i) = 1 THEN Pow2(i) ELSE 0
    IN  ((t(0) + t(1)) + (t(2) + t(3))) + ((t(4) + t(5)) + (t(6) + t(7)))
        + (((t(8) + t(9)) + (t(10) + t(11))) + ((t(12) + t(13)) + (t(14) + t(15))))

Or16(a, b)  == BitOr(a, b, 16)
And16(a, b) == BitAnd(a, b, 16)
Shl16(a, n) == (a * Pow2(n)) % 65536
Shr16(a, n) == a \div Pow2(n)
B2U(b)      == IF b THEN 1 ELSE 0

(***************************************************************************)
(* Dns::encode_flags / Dns::decode_flags                                   *)
(***************************************************************************)
FlagsMisplacedAA(flags) ==
    Or16(Shl16(B2U(flags.qr), 15),
    Or16(Shl16(flags.opcode, 11),
    Or16(Shl16(B2U(flags.aa), 9),
    Or16(Shl16(B2U(flags.tc), 9),
    Or16(Shl16(B2U(flags.rd), 8),
    Or16(Shl16(B2U(flags.ra), 7),
    Or16(Shl16(flags.z, 4), flags.rcode)))))))

encode_flags(flags) ==
    Or16(Shl16(B2U(flags.qr), 15),
    Or16(Shl16(flags.opcode, 11),
    Or16(Shl16(B2U(flags.aa), 10),
    Or16(Shl16(B2U(flags.tc), 9),
    Or16(Shl16(B2U(flags.rd), 8),
    Or16(Shl16(B2U(flags.ra), 7),
    Or16(Shl16(flags.z, 4), flags.rcode)))))))

decode_flags(raw) ==
    [qr     |-> And16(raw, 32768) # 0,
     opcode |-> Shr16(And16(raw, 30720), 11),
     aa     |-> And16(raw, 1024) # 0,
     tc     |-> And16(raw, 512) # 0,
     rd     |-> And16(raw, 256) # 0,
     ra     |-> And16(raw, 128) # 0,
     z      |-> Shr16(And16(raw, 112), 4),
     rcode  |-> And16(raw, 15)]

\* Flags values with every field in its declared range.
FlagsInRange ==
    [qr : BOOLEAN, opcode : 0..15, aa : BOOLEAN, tc : BOOLEAN,
     rd : BOOLEAN, ra : BOOLEAN, z : 0..7, rcode : 0..15]

NoFlags == [qr |-> FALSE, opcode |-> 0, aa |-> FALSE, tc |-> FALSE,
            rd |-> FALSE, ra |-> FALSE, z |-> 0, rcode |-> 0]

(***************************************************************************)
(* Strings: str::from_utf8, str::split('.'), [String]::join(".")           *)
(***************************************************************************)
Dot == 46

IsCont(b) == b >= 128 /\ b <= 191

\* Number of bytes of the well-formed UTF-8 sequence that starts at s[i],
\* or 0 when there is none (the table of the Unicode standard, which
\* core::str::from_utf8 implements).
Utf8SeqLen(s, i) ==
    LET b  == s[i]
        n  == Len(s)
        c1 == IF i + 1 <= n THEN s[i + 1] ELSE 0
        c2 == IF i + 2 <= n THEN s[i + 2] ELSE 0
        c3 == IF i + 3 <= n THEN s[i + 3] ELSE 0
    IN  IF b < 128 THEN 1
        ELSE IF b >= 194 /\ b <= 223
             THEN (IF IsCont(c1) THEN 2 ELSE 0)
        ELSE IF b = 224
             THEN (IF c1 >= 160 /\ c1 <= 191 /\ IsCont(c2) THEN 3 ELSE 0)
        ELSE IF (b >= 225 /\ b <= 236) \/ b = 238 \/ b = 239
             THEN (IF IsCont(c1) /\ IsCont(c2) THEN 3 ELSE 0)
        ELSE IF b = 237
             THEN (IF c1 >= 128 /\ c1 <= 159 /\ IsCont(c2) THEN 3 ELSE 0)
        ELSE IF b = 240
             THEN (IF c1 >= 144 /\ c1 <= 191 /\ IsCont(c2) /\ IsCont(c3)
                   THEN 4 ELSE 0)
        ELSE IF b >= 241 /\ b <= 243
             THEN (IF IsCont(c1) /\ IsCont(c2) /\ IsCont(c3) THEN 4 ELSE 0)
        ELSE IF b = 244
             THEN (IF c1 >= 128 /\ c1 <= 143 /\ IsCont(c2) /\ IsCont(c3)
                   THEN 4 ELSE 0)
        ELSE 0

\* s[i] is a byte of a well-formed sequence: ASCII, a lead byte followed by
\* its continuation bytes, or a continuation byte that a lead byte at most
\* three places before it covers.
Utf8ByteOk(s, i) ==
    IF IsCont(s[i])
    THEN \E k \in 1..3 : i - k >= 1 /\ Utf8SeqLen(s, i - k) > k
    ELSE Utf8SeqLen(s, i) # 0

from_utf8_ok(s) == \A i \in 1..Len(s) : Utf8ByteOk(s, i)

RECURSIVE JoinFrom(_, _)
JoinFrom(labels, i) ==
    IF i > Len(labels) THEN <<>>
    ELSE IF i = Len(labels) THEN labels[i]
    ELSE labels[i] \o <<Dot>> \o JoinFrom(labels, i + 1)

\* labels.join(".")
Join(labels) == JoinFrom(labels, 1)

\* The position of the j-th dot of s; 0 before the first, Len(s) + 1 after
\* the last.
DotAt(s, j) ==
    LET dots == {i \in 1..Len(s) : s[i] = Dot}
    IN  IF j = 0 THEN 0
        ELSE IF j > Cardinality(dots) THEN Len(s) + 1
        ELSE CHOOSE i \in dots : Cardinality({x \in dots : x < i}) = j - 1

\* name.split('.'): one piece more than there are dots, empty pieces kept
Split(s) ==
    LET n == Cardinality({i \in 1..Len(s) : s[i] = Dot})
    IN  [j \in 1..(n + 1) |-> SubSeq(s, DotAt(s, j - 1) + 1, DotAt(s, j) - 1)]

(***************************************************************************)
(* DnsReadBuffer (src/buffer.rs).  A buffer is [data, index]; index is     *)
(* 0-based as in the source, so the byte at index i is data[i + 1].        *)
(***************************************************************************)
StackLimit == 20

Ok(v, i)  == [ok |-> TRUE, err |-> "", val |-> v, index |-> i]
Err(e, i) == [ok |-> FALSE, err |-> e, val |-> <<>>, index |-> i]

\* After the nested call for a pointer: its error, or the labels read so
\* far with the name it returned pushed as the last one; the position is
\* the one after the pointer (jump_index).
PointerResult(r, labels, jump_index) ==
    IF ~r.ok THEN r ELSE Ok(Join(Append(labels, r.val)), jump_index)

\* The length octet at idx opens a pointer
IsPointer(d, idx) == And16(d[idx + 1], 192) = 192

\* The target of the pointer whose two octets start at idx
PointerAt(d, idx) == Or16(Shl16(And16(d[idx + 1], 63), 8), d[idx + 2])

\* read_name_at: the loop of one call, with the labels collected so far.
\* depth counts the nested calls; a recursion deeper than the stack allows
\* ends the process ("StackOverflow" is not a value the function returns).
RECURSIVE read_name_loop(_, _, _, _)
read_name_loop(d, idx, labels, depth) ==
    CASE depth > StackLimit -> Err("StackOverflow", idx)
      [] depth <= StackLimit /\ idx >= Len(d) -> Err("EndOfBuffer", idx)
      [] depth <= StackLimit /\ idx < Len(d) /\ IsPointer(d, idx) ->
            IF idx + 1 >= Len(d) THEN Err("EndOfBuffer", idx + 1)
            ELSE IF PointerAt(d, idx) >= Len(d) THEN Err("InvalidString", idx + 2)
            ELSE PointerResult(read_name_loop(d, PointerAt(d, idx), <<>>, depth + 1),
                               labels, idx + 2)
      [] depth <= StackLimit /\ idx < Len(d) /\ ~IsPointer(d, idx) ->
            IF d[idx + 1] = 0
            THEN Ok(IF labels = <<>> THEN <<Dot>> ELSE Join(labels), idx + 1)
            ELSE IF idx + 1 + d[idx + 1] > Len(d) THEN Err("EndOfBuffer", idx + 1)
            ELSE IF ~from_utf8_ok(SubSeq(d, idx + 2, idx + 1 + d[idx + 1]))
            THEN Err("InvalidString", idx + 1 + d[idx + 1])
            ELSE read_name_loop(d, idx + 1 + d[idx + 1],
                                Append(labels, SubSeq(d, idx + 2, idx + 1 + d[idx + 1])),
                                depth)

read_name_at(d, idx) == read_name_loop(d, idx, <<>>, 0)

\* read_str: on success the index moves to the returned position; on
\* failure it stays where it was.
read_str(buf) ==
    LET r == read_name_at(buf.data, buf.index)
    IN  IF r.ok THEN r ELSE Err(r.err, buf.index)

read_u8(buf) ==
    IF buf.index < Len(buf.data)
    THEN Ok(buf.data[buf.index + 1], buf.index + 1)
    ELSE Err("EndOfBuffer", buf.index)

read_u16_moves(buf) ==
    IF buf.index + 2 <= Len(buf.data)
    THEN Ok(buf.data[buf.index + 1] * 256 + buf.data[buf.index + 2],
            buf.index + 2)
    ELSE Err("EndOfBuffer", buf.index + 2)

read_u16(buf) ==
    IF buf.index + 2 <= Len(buf.data)
    THEN Ok(buf.data[buf.index + 1] * 256 + buf.data[buf.index + 2],
            buf.index + 2)
    ELSE Err("EndOfBuffer", buf.index)

\* A u32 is kept as its four big-endian bytes (u32::from_be_bytes and
\* to_be_bytes are inverse bijections); U32(n) is the value n < 2^24.
U32(n) == <<0, (n \div 65536) % 256, (n \div 256) % 256, n % 256>>

read_u32(buf) ==
    IF buf.index + 4 <= Len(buf.data)
    THEN Ok(SubSeq(buf.data, buf.index + 1, buf.index + 4), buf.index + 4)
    ELSE Err("EndOfBuffer", buf.index)

read_n_bytes(buf, n) ==
    IF buf.index + n <= Len(buf.data)
    THEN Ok(SubSeq(buf.data, buf.index + 1, buf.index + n), buf.index + n)
    ELSE Err("EndOfBuffer", buf.index)

At(buf, i) == [data |-> buf.data, index |-> i]

\* set_index: the index moves to off, or stays where it is on failure
set_index(buf, o) ==
    IF o >= Len(buf.data) THEN Err("EndOfBuffer", buf.index) ELSE Ok(<<>>, o)

(***************************************************************************)
(* Buffer (src/dns/buffer.rs), the older reader: read_str follows the      *)
(* pointers in a loop on the buffer's own index.                           *)
(***************************************************************************)
Buffer_set_index(buf, o) ==
    IF o >= Len(buf.data) THEN Err("EndOfBuffer", buf.index) ELSE Ok(<<>>, o)

\* The end of read_str: after a jump the index is set back to the position
\* after the first pointer; parts is the list of labels read.
Buffer_restore(buf, parts, jumped, jump_offset) ==
    IF jumped /\ ~Buffer_set_index(buf, jump_offset).ok
    THEN Buffer_set_index(buf, jump_offset)
    ELSE Ok(IF parts = <<>> THEN <<Dot>> ELSE Join(parts),
            IF jumped THEN jump_offset ELSE buf.index)

\* The loop of read_str with the index at idx.  hops counts the pointers
\* followed: after more than Len(d) of them a target has been visited
\* twice and the loop never ends ("Diverges" is not a value the function
\* returns).
RECURSIVE Buffer_read_loop(_, _, _, _, _, _)
Buffer_read_loop(d, idx, parts, jumped, jump_offset, hops) ==
    CASE hops > Len(d) -> Err("Diverges", idx)
      [] hops <= Len(d) /\ idx >= Len(d) -> Err("EndOfBuffer", idx)
      [] hops <= Len(d) /\ idx < Len(d) /\ IsPointer(d, idx) ->
            IF idx + 1 >= Len(d) THEN Err("EndOfBuffer", idx + 1)
            ELSE IF PointerAt(d, idx) >= Len(d) THEN Err("InvalidString", idx + 2)
            ELSE Buffer_read_loop(d, PointerAt(d, idx), parts, TRUE,
                                  IF jumped THEN jump_offset ELSE idx + 2,
                                  hops + 1)
      [] hops <= Len(d) /\ idx < Len(d) /\ ~IsPointer(d, idx) ->
            IF d[idx + 1] = 0
            THEN Buffer_restore([data |-> d, index |-> idx + 1], parts, jumped,
                                jump_offset)
            ELSE IF idx + 1 + d[idx + 1] > Len(d) THEN Err("EndOfBuffer", idx + 1)
            ELSE IF ~from_utf8_ok(SubSeq(d, idx + 2, idx + 1 + d[idx + 1]))
            THEN Err("InvalidString", idx + 1 + d[idx + 1])
            ELSE Buffer_read_loop(d, idx + 1 + d[idx + 1],
                                  Append(parts, SubSeq(d, idx + 2, idx + 1 + d[idx + 1])),
                                  jumped, jump_offset, hops)

Buffer_read_str(buf) == Buffer_read_loop(buf.data, buf.index, <<>>, FALSE, 0, 0)

(***************************************************************************)
(* DnsWriteBuffer (src/buffer.rs): the buffer is its byte vector.          *)
(***************************************************************************)
write_u8(b, v)     == Append(b, v)
write_u16(b, v)    == b \o <<(v \div 256) % 256, v % 256>>
write_u32(b, v)    == b \o v
write_bytes(b, bs) == b \o bs

RECURSIVE write_labels(_, _, _)
write_labels(b, labels, i) ==
    IF i > Len(labels) THEN [data |-> write_u8(b, 0), ok |-> TRUE]
    ELSE IF Len(labels[i]) > 63 THEN [data |-> b, ok |-> FALSE]
    ELSE write_labels(write_bytes(write_u8(b, Len(labels[i])), labels[i]),
                      labels, i + 1)

\* write_str: [data, ok]; ok = FALSE is Err(LabelTooLong), and the bytes
\* written before the long label stay in the buffer.
write_str(b, name) == write_labels(b, Split(name), 1)

(***************************************************************************)
(* Dns codec (src/dns.rs).  RData is [tag, v]: A with 4 octets, AAAA with  *)
(* 8 segments, NS and CNAME with a name, EMPTY with no bytes.              *)
(***************************************************************************)
RData(tag, v) == [tag |-> tag, v |-> v]
EmptyRData    == RData("EMPTY", <<>>)

\* map_err(|_| DnsError::InvalidField)
InvalidField(r) == IF r.ok THEN r ELSE Err("InvalidField", r.index)

\* The ? operator: the error of r, or the continuation F applied to the
\* Ok value r (with the buffer index after it).
Then(r, F(_)) == CHOOSE y \in {IF v.ok THEN F(v) ELSE v : v \in {r}} : TRUE

\* The while loop of decode_rdata: read_u8 until the index reaches limit;
\* the reads fail at the end of the data.
SkipResidual(buf, limit) ==
    IF buf.index >= limit THEN Ok(<<>>, buf.index)
    ELSE IF limit <= Len(buf.data) THEN Ok(<<>>, limit)
    ELSE Err("InvalidField", Len(buf.data))

decode_rdata(buf, atype, length) ==
    CASE atype = 1 ->
            Then(InvalidField(read_n_bytes(buf, length)), LAMBDA raw :
            IF Len(raw.val) # 4 THEN Err("InvalidRData", raw.index)
            ELSE Ok(RData("A", raw.val), raw.index))
      [] atype = 28 ->
            Then(InvalidField(read_n_bytes(buf, length)), LAMBDA raw :
            IF Len(raw.val) # 16 THEN Err("InvalidRData", raw.index)
            ELSE Ok(RData("AAAA", [i \in 1..8 |->
                        raw.val[2 * i - 1] * 256 + raw.val[2 * i]]),
                    raw.index))
      [] atype \in {2, 5} ->
            Then(InvalidField(read_str(buf)), LAMBDA name :
            IF name.index > buf.index + length
            THEN Err("InvalidRData", name.index)
            ELSE Then(SkipResidual(At(buf, name.index), buf.index + length),
                      LAMBDA skipped :
                 Ok(RData(IF atype = 2 THEN "NS" ELSE "CNAME", name.val),
                    skipped.index)))
      [] OTHER -> Ok(EmptyRData, buf.index)

QueryRecord(qname, qtype, qclass) ==
    [qname |-> qname, qtype |-> qtype, qclass |-> qclass]

AnswerRecord(aname, atype, aclass, ttl, length, rdata) ==
    [aname |-> aname, atype |-> atype, aclass |-> aclass, ttl |-> ttl,
     length |-> length, rdata |-> rdata]

\* One iteration of decode_questions
decode_question(buf) ==
    Then(InvalidField(read_str(buf)), LAMBDA qname :
    Then(InvalidField(read_u16(At(buf, qname.index))), LAMBDA qtype :
    Then(InvalidField(read_u16(At(buf, qtype.index))), LAMBDA qclass :
    Ok(QueryRecord(qname.val, qtype.val, qclass.val), qclass.index))))

RECURSIVE decode_questions_from(_, _, _)
decode_questions_from(buf, count, records) ==
    IF count = 0 THEN Ok(records, buf.index)
    ELSE Then(decode_question(buf), LAMBDA q :
         decode_questions_from(At(buf, q.index), count - 1,
                               Append(records, q.val)))

decode_questions(buf, count) == decode_questions_from(buf, count, <<>>)

\* One iteration of decode_answers
decode_answer(buf) ==
    Then(InvalidField(read_str(buf)), LAMBDA aname :
    Then(InvalidField(read_u16(At(buf, aname.index))), LAMBDA atype :
    Then(InvalidField(read_u16(At(buf, atype.index))), LAMBDA aclass :
    Then(InvalidField(read_u32(At(buf, aclass.index))), LAMBDA ttl :
    Then(InvalidField(read_u16(At(buf, ttl.index))), LAMBDA length :
    Then(decode_rdata(At(buf, length.index), atype.val, length.val),
         LAMBDA rdata :
    Ok(AnswerRecord(aname.val, atype.val, aclass.val, ttl.val, length.val,
                    rdata.val),
       rdata.index)))))))

RECURSIVE decode_answers_from(_, _, _)
decode_answers_from(buf, count, records) ==
    IF count = 0 THEN Ok(records, buf.index)
    ELSE Then(decode_answer(buf), LAMBDA a :
         decode_answers_from(At(buf, a.index), count - 1,
                             Append(records, a.val)))

decode_answers(buf, count) == decode_answers_from(buf, count, <<>>)

Header(id, flags, qd, an, ns, ar) ==
    [id |-> id, flags |-> flags, qd_count |-> qd, an_count |-> an,
     ns_count |-> ns, ar_count |-> ar]

\* Dns::new
Dns(id, flags, qd, an, ns, ar, questions, answers, authorities, additionals) ==
    [header |-> Header(id, flags, qd, an, ns, ar), questions |-> questions,
     answers |-> answers, authorities |-> authorities,
     additionals |-> additionals]

\* Dns::decode
decode_buf(buf) ==
    Then(InvalidField(read_u16(buf)), LAMBDA id :
    Then(InvalidField(read_u16(At(buf, id.index))), LAMBDA flags_raw :
    Then(InvalidField(read_u16(At(buf, flags_raw.index))), LAMBDA qd_count :
    Then(InvalidField(read_u16(At(buf, qd_count.index))), LAMBDA an_count :
    Then(InvalidField(read_u16(At(buf, an_count.index))), LAMBDA ns_count :
    Then(InvalidField(read_u16(At(buf, ns_count.index))), LAMBDA ar_count :
    Then(decode_questions(At(buf, ar_count.index), qd_count.val),
         LAMBDA questions :
    Then(decode_answers(At(buf, questions.index), an_count.val),
         LAMBDA answers :
    Then(decode_answers(At(buf, answers.index), ns_count.val),
         LAMBDA authorities :
    Then(decode_answers(At(buf, authorities.index), ar_count.val),
         LAMBDA additionals :
    Ok(Dns(id.val, decode_flags(flags_raw.val), qd_count.val, an_count.val,
           ns_count.val, ar_count.val, questions.val, answers.val,
           authorities.val, additionals.val),
       additionals.index)))))))))))

\* Dns::decode(&mut DnsReadBuffer::new(d))
decode(d) == decode_buf([data |-> d, index |-> 0])

\* Dns::encode_rdata; the Result of write_str is dropped
encode_rdata(rdata) ==
    CASE rdata.tag = "A"    -> write_bytes(<<>>, rdata.v)
      [] rdata.tag = "AAAA" ->
            write_u16(write_u16(write_u16(write_u16(write_u16(write_u16(
            write_u16(write_u16(<<>>, rdata.v[1]), rdata.v[2]), rdata.v[3]),
            rdata.v[4]), rdata.v[5]), rdata.v[6]), rdata.v[7]), rdata.v[8])
      [] rdata.tag \in {"NS", "CNAME"} -> write_str(<<>>, rdata.v).data
      [] OTHER -> write_bytes(<<>>, <<>>)

\* The length field and the bytes of the rdata
write_rdata(buffer, raw) == write_bytes(write_u16(buffer, Len(raw) % 65536), raw)

\* One iteration of encode_answers; the Result of write_str is dropped
encode_answer(buffer, a) ==
    write_rdata(
        write_u32(write_u16(write_u16(
            IF a.atype = 41 THEN write_u8(buffer, 0)
            ELSE write_str(buffer, a.aname).data,
            a.atype), a.aclass), a.ttl),
        encode_rdata(a.rdata))

RECURSIVE encode_answers_from(_, _, _)
encode_answers_from(buffer, answers, i) ==
    IF i > Len(answers) THEN buffer
    ELSE encode_answers_from(encode_answer(buffer, answers[i]), answers, i + 1)

encode_answers(buffer, answers) == encode_answers_from(buffer, answers, 1)

RECURSIVE encode_questions_from(_, _, _)
encode_questions_from(buffer, questions, i) ==
    IF i > Len(questions) THEN buffer
    ELSE encode_questions_from(
             write_u16(write_u16(write_str(buffer, questions[i].qname).data,
                                 questions[i].qtype), questions[i].qclass),
             questions, i + 1)

\* The six header fields
encode_header(h) ==
    write_u16(write_u16(write_u16(write_u16(write_u16(write_u16(<<>>,
        h.id), encode_flags(h.flags)), h.qd_count), h.an_count), h.ns_count),
        h.ar_count)

\* Dns::encode: always Ok; the value is the buffer's bytes
encode(m) ==
    encode_answers(encode_answers(encode_answers(
        encode_questions_from(encode_header(m.header), m.questions, 1),
        m.answers), m.authorities), m.additionals)

\* Dns::new_a_question
new_a_question(domain, id) ==
    Dns(id, NoFlags, 1, 0, 0, 0, <<QueryRecord(domain, 1, 1)>>, <<>>, <<>>, <<>>)

(***************************************************************************)
(* Inputs of the name decoder                                              *)
(***************************************************************************)
MaxSlice == 4

\* 0 ends a name, 1 and 2 are label lengths and pointer targets, 97 is "a",
\* 192 (0xC0) opens a pointer, 255 is never part of valid UTF-8.
NameBytes == {0, 1, 2, 97, 192, 255}

Rep(b, n) == [i \in 1..n |-> b]

\* Scenario S3: offsets 0 and 12 hold the pointer C0 0C.
S3Buffer == <<192, 12>> \o Rep(0, 10) \o <<192, 12, 192, 12>>

\* One label of 64 bytes, and a name of five 63-byte labels.
LongLabelSlice == <<64>> \o Rep(97, 64) \o <<0>>
Label63        == <<63>> \o Rep(97, 63)
LongNameSlice  == Label63 \o Label63 \o Label63 \o Label63 \o Label63 \o <<0>>

SlicesOfLen(n) == [1..n -> NameBytes]
Slices == UNION {SlicesOfLen(n) : n \in 0..MaxSlice}
              \cup {S3Buffer, LongLabelSlice, LongNameSlice}

(***************************************************************************)
(* Idle values of the parts a specification does not use                   *)
(***************************************************************************)
NoRes == Err("", 0)

FlagsIdle == fpc = "off" /\ flagsIn = NoFlags /\ flagsRaw = 0 /\ flagsOut = NoFlags
NameIdle  == npc = "off" /\ data = <<>> /\ start = 0 /\ nres = NoRes
             /\ offset = 0
CodecIdle == cmode = "off" /\ cpc = "off" /\ msg = <<>> /\ wire = <<>>
             /\ plain = <<>> /\ dec = NoRes /\ decPlain = NoRes /\ reenc = <<>>
ResIdle   == call = <<>> /\ stack = <<>> /\ sent = <<>> /\ retval = NoRes
             /\ seen = {} /\ exhausted = FALSE
SrvIdle   == arrived = <<>> /\ listening = FALSE /\ tasks = <<>>
             /\ outgoing = <<>> /\ recv_buf = <<>>

(***************************************************************************)
(* Inputs of the codec: the names "a", "a.b" and "."                       *)
(***************************************************************************)
NameA  == <<97>>
NameAB == <<97, 46, 98>>
Root   == <<46>>

MsgRecords ==
    { AnswerRecord(NameA, 1, 1, U32(60), 4, RData("A", <<93, 184, 216, 34>>)),
      AnswerRecord(NameAB, 28, 1, U32(60), 16, RData("AAAA", <<8193, 3512, 0, 0, 0, 0, 0, 1>>)),
      AnswerRecord(NameA, 2, 1, U32(60), 5, RData("NS", NameAB)),
      AnswerRecord(NameAB, 5, 1, U32(300), 3, RData("CNAME", NameA)),
      AnswerRecord(Root, 1, 1, U32(60), 4, RData("A", <<198, 41, 0, 4>>)),
      AnswerRecord(NameA, 5, 1, U32(60), 1, RData("CNAME", Root)),
      AnswerRecord(NameA, 16, 1, U32(60), 0, EmptyRData),
      AnswerRecord(Root, 41, 4096, U32(0), 0, EmptyRData) }

MsgSections == {<<>>} \cup {<<r>> : r \in MsgRecords}

MsgQuestions ==
    {<<>>, <<QueryRecord(NameA, 1, 1)>>, <<QueryRecord(NameAB, 28, 1)>>,
     <<QueryRecord(Root, 2, 1)>>,
     <<QueryRecord(NameAB, 1, 1), QueryRecord(NameA, 1, 1)>>}

MsgFlags == [NoFlags EXCEPT !.qr = TRUE, !.rd = TRUE, !.ra = TRUE, !.rcode = 3]

\* Messages whose stored counts are the lengths of their sections, and
\* messages built by Dns::new with counts that are not.
DerivedMessages ==
    { Dns(4660, MsgFlags, Len(q), Len(an), Len(ns), Len(ar), q, an, ns, ar) :
        q \in MsgQuestions, an \in MsgSections, ns \in MsgSections,
        ar \in MsgSections }

StaleMessages ==
    { Dns(4660, MsgFlags, 0, 0, 0, 0, q, <<>>, <<>>, <<>>) :
        q \in MsgQuestions \ {<<>>} }

\* Messages with a label of 64 bytes: alone or after the label "a" in the
\* name of a question, in the owner name of a record, and in its rdata
LongLabel == Rep(97, 64)

LongLabelNames == {LongLabel, NameA \o <<Dot>> \o LongLabel}

LongLabelMessages ==
    { Dns(4660, MsgFlags, 1, 0, 0, 0, <<QueryRecord(n, 1, 1)>>, <<>>, <<>>, <<>>) :
        n \in LongLabelNames }
    \cup
    { Dns(4660, MsgFlags, 0, 1, 0, 0, <<>>,
          <<AnswerRecord(n, 1, 1, U32(60), 4, RData("A", <<93, 184, 216, 34>>))>>,
          <<>>, <<>>) : n \in LongLabelNames }
    \cup
    { Dns(4660, MsgFlags, 0, 1, 0, 0, <<>>,
          <<AnswerRecord(NameA, 5, 1, U32(60), 66, RData("CNAME", n))>>,
          <<>>, <<>>) : n \in LongLabelNames }

Messages == DerivedMessages \cup StaleMessages \cup LongLabelMessages

\* A message on the wire is described by the labels q of its question
\* name, the place where the name occurs a second time, and the number k
\* of labels the second occurrence keeps before its pointer.
QLabels ==
    { <<>>, <<<<97>>>>, <<<<97>>, <<98>>>>,
      <<<<119, 119, 119>>, <<101, 120, 97, 109, 112, 108, 101>>, <<99, 111, 109>>>> }

Places == {"none", "question", "owner", "ns", "cname", "other"}

WireDescs ==
    { d \in [q : QLabels, place : Places, k : 0..3] :
        d.k <= Len(d.q) /\ (d.place \in {"none", "other"} => d.k = 0) }

RECURSIVE WireLabels(_, _, _)
WireLabels(labels, i, n) ==
    IF i > n THEN <<>>
    ELSE <<Len(labels[i])>> \o labels[i] \o WireLabels(labels, i + 1, n)

\* The uncompressed wire form of a name: its labels and the root octet
WireName(labels) == WireLabels(labels, 1, Len(labels)) \o <<0>>

\* The first k labels, then a pointer to where the rest of the name starts
\* in the question name at offset 12
WirePointed(labels, k) ==
    LET off == 12 + Len(WireLabels(labels, 1, k))
    IN  WireLabels(labels, 1, k) \o <<192 + off \div 256, off % 256>>

WireHeader(qd, an, ns, ar) ==
    <<0, 1, 1, 0, 0, qd, 0, an, 0, ns, 0, ar>>

\* The message of a description; second is the wire form of the second
\* occurrence of the name.
WireMessage(desc, second) ==
    LET first == WireName(desc.q) \o <<0, 1, 0, 1>>
        fixed(t) == <<0, t, 0, 1, 0, 0, 0, 60>>
    IN  CASE desc.place = "none" -> WireHeader(1, 0, 0, 0) \o first
          [] desc.place = "question" ->
                WireHeader(2, 0, 0, 0) \o first \o second \o <<0, 1, 0, 1>>
          [] desc.place = "owner" ->
                WireHeader(1, 1, 0, 0) \o first \o second \o fixed(1)
                \o <<0, 4, 93, 184, 216, 34>>
          [] desc.place = "ns" ->
                WireHeader(1, 0, 1, 0) \o first \o WireName(desc.q) \o fixed(2)
                \o <<0, Len(second)>> \o second
          [] desc.place = "cname" ->
                WireHeader(1, 1, 0, 0) \o first \o WireName(desc.q) \o fixed(5)
                \o <<0, Len(second)>> \o second
          [] desc.place = "other" ->
                WireHeader(1, 1, 0, 0) \o first \o WireName(desc.q) \o fixed(16)
                \o <<0, 2, 1, 97>>

PlainWire(desc) == WireMessage(desc, WireName(desc.q))

CompressedWire(desc) ==
    IF desc.place \in {"none", "other"} THEN PlainWire(desc)
    ELSE WireMessage(desc, WirePointed(desc.q, desc.k))

(***************************************************************************)
(* SpecCodec: encode a message and decode the bytes; decode a message      *)
(* received in uncompressed and in compressed form and encode it again     *)
(***************************************************************************)
InitCodec ==
    /\ \/ /\ cmode = "msg" /\ cpc = "msg" /\ msg \in Messages
          /\ wire = <<>> /\ plain = <<>>
       \/ /\ cmode = "bytes" /\ cpc = "wire" /\ msg \in WireDescs
          /\ wire = CompressedWire(msg) /\ plain = PlainWire(msg)
    /\ dec = NoRes /\ decPlain = NoRes /\ reenc = <<>>
    /\ FlagsIdle /\ NameIdle /\ ResIdle /\ SrvIdle

EncodeMsg ==
    /\ cpc = "msg"
    /\ wire' = encode(msg)
    /\ plain' = encode(msg)
    /\ cpc' = "wire"
    /\ UNCHANGED <<cmode, msg, dec, decPlain, reenc, flagVars, nameVars, resVars,
                   srvVars>>

DecodeWire ==
    /\ cpc = "wire"
    /\ dec' = decode(wire)
    /\ decPlain' = decode(plain)
    /\ cpc' = "decoded"
    /\ UNCHANGED <<cmode, msg, wire, plain, reenc, flagVars, nameVars, resVars,
                   srvVars>>

EncodeDecoded ==
    /\ cpc = "decoded"
    /\ decPlain.ok
    /\ reenc' = encode(decPlain.val)
    /\ cpc' = "reencoded"
    /\ UNCHANGED <<cmode, msg, wire, plain, dec, decPlain, flagVars, nameVars,
                   resVars, srvVars>>

\* resolver.rs lines 48-53: a fresh buffer of 4096 zero bytes, of which
\* recv_from overwrites the first size bytes with the datagram
BufferSize == 4096

ZeroBuffer == [i \in 1..BufferSize |-> 0]

recv_from(datagram) ==
    IF Len(datagram) >= BufferSize THEN SubSeq(datagram, 1, BufferSize)
    ELSE datagram \o SubSeq(ZeroBuffer, Len(datagram) + 1, BufferSize)

\* resolve receives the first size bytes of a message as the datagram; the
\* slice contact returns is dropped and Dns::decode reads the buffer
ReceiveDecode ==
    /\ cmode = "bytes"
    /\ cpc = "wire"
    /\ \E size \in 0..Len(plain) :
          \E buffer \in {recv_from(SubSeq(plain, 1, size))} :
              /\ plain' = SubSeq(plain, 1, size)
              /\ decPlain' = decode(buffer)
    /\ cpc' = "received"
    /\ UNCHANGED <<cmode, msg, wire, dec, reenc, flagVars, nameVars, resVars,
                   srvVars>>

NextCodec == EncodeMsg \/ DecodeWire \/ EncodeDecoded \/ ReceiveDecode

SpecCodec == InitCodec /\ [][NextCodec]_vars

(***************************************************************************)
(* SpecFlags: pack a Flags value, then unpack the 16 bits                  *)
(***************************************************************************)
InitFlags ==
    /\ fpc = "new" /\ flagsIn \in FlagsInRange /\ flagsRaw = 0 /\ flagsOut = NoFlags
    /\ NameIdle /\ CodecIdle /\ ResIdle /\ SrvIdle

PackFlags ==
    /\ fpc = "new"
    /\ flagsRaw' = encode_flags(flagsIn)
    /\ fpc' = "packed"
    /\ UNCHANGED <<flagsIn, flagsOut, nameVars, codecVars, resVars, srvVars>>

UnpackFlags ==
    /\ fpc = "packed"
    /\ flagsOut' = decode_flags(flagsRaw)
    /\ fpc' = "unpacked"
    /\ UNCHANGED <<flagsIn, flagsRaw, nameVars, codecVars, resVars, srvVars>>

NextFlags == PackFlags \/ UnpackFlags

SpecFlags == InitFlags /\ [][NextFlags]_vars

(***************************************************************************)
(* SpecName: decode a name at a position of a byte slice                   *)
(***************************************************************************)
InitName ==
    /\ npc = "new" /\ data \in Slices /\ start \in 0..Len(data) /\ nres = NoRes
    /\ offset = 0
    /\ FlagsIdle /\ CodecIdle /\ ResIdle /\ SrvIdle

ReadName ==
    /\ npc = "new"
    /\ nres' = read_str([data |-> data, index |-> start])
    /\ npc' = "done"
    /\ UNCHANGED <<data, start, offset, flagVars, codecVars, resVars, srvVars>>

\* set_index(o) on a buffer over data whose index is start
SetIndex ==
    /\ npc = "new"
    /\ \E o \in 0..(Len(data) + 1) :
          /\ offset' = o
          /\ nres' = set_index([data |-> data, index |-> start], o)
    /\ npc' = "sought"
    /\ UNCHANGED <<data, start, flagVars, codecVars, resVars, srvVars>>

\* Buffer::read_str on a buffer over data whose index is start
BufferReadStr ==
    /\ npc = "new"
    /\ nres' = Buffer_read_str([data |-> data, index |-> start])
    /\ npc' = "read"
    /\ UNCHANGED <<data, start, offset, flagVars, codecVars, resVars, srvVars>>

NextName == ReadName \/ SetIndex \/ BufferReadStr

SpecName == InitName /\ [][NextName]_vars

(***************************************************************************)
(* SpecCursor: a DnsReadBuffer over a byte slice and any sequence of its   *)
(* operations.  start is the buffer's index, nres the result of the last   *)
(* operation, offset its argument, npc its name.  The length n of          *)
(* read_n_bytes is the rdata length of a record, a u16 (dns.rs lines 50    *)
(* and 61), so index + n does not overflow.  The buffers are those on      *)
(* which read_str returns from every position: a name whose pointers form  *)
(* a loop exhausts the stack and ends the process with its buffer.         *)
(***************************************************************************)
CursorOps ==
    {"new", "set_index", "read_u8", "read_u16", "read_u32", "read_n_bytes",
     "read_str"}

Cursor == [data |-> data, index |-> start]

\* The name "a", a pointer to it, and four bytes of type and class
NameBuffer == <<1, 97, 0, 192, 0, 0, 1, 0, 1>>

\* read_str returns from every position of d.  A name of d that ends has
\* followed fewer pointers than d has bytes, so it is enough to look
\* Len(d) calls deep.
Returns(d) ==
    \A i \in 0..Len(d) :
        read_name_loop(d, i, <<>>, StackLimit - Len(d)).err # "StackOverflow"

\* Every slice of up to MaxSlice bytes without a pointer loop, and NameBuffer
CursorSlices ==
    {d \in UNION {SlicesOfLen(n) : n \in 0..MaxSlice} : Returns(d)}
        \cup {NameBuffer}

InitCursor ==
    /\ npc = "new" /\ data \in CursorSlices /\ start = 0 /\ nres = NoRes
    /\ offset = Len(data)
    /\ FlagsIdle /\ CodecIdle /\ ResIdle /\ SrvIdle

\* The operation op was called with argument arg and returned r
Called(op, arg, r) ==
    /\ npc \in CursorOps
    /\ npc' = op
    /\ offset' = arg
    /\ nres' = r
    /\ start' = r.index
    /\ UNCHANGED <<data, flagVars, codecVars, resVars, srvVars>>

CursorSetIndex ==
    \E o \in 0..(Len(data) + 1) : Called("set_index", o, set_index(Cursor, o))

CursorReadU8 == Called("read_u8", 1, read_u8(Cursor))

CursorReadU16 == Called("read_u16", 2, read_u16(Cursor))

CursorReadU32 == Called("read_u32", 4, read_u32(Cursor))

CursorReadNBytes ==
    \E n \in 0..(MaxSlice + 1) :
        Called("read_n_bytes", n, read_n_bytes(Cursor, n))

CursorReadStr == Called("read_str", 0, read_str(Cursor))

NextCursor ==
    \/ CursorSetIndex \/ CursorReadU8 \/ CursorReadU16 \/ CursorReadU32
    \/ CursorReadNBytes \/ CursorReadStr

SpecCursor == InitCursor /\ [][NextCursor]_vars

(***************************************************************************)
(* Resolver (src/resolver.rs, src/contact.rs).  resolve is an async        *)
(* recursive function: stack holds one frame per call in progress, the     *)
(* last frame is the running one.  A frame is at "entry" before the depth  *)
(* test, at "await" while contact waits for the response, and at           *)
(* "tail", "glue_wait", "ns_wait", "ip_wait" while it awaits the call of   *)
(* line 78/131, 115, 144, 150.  retval is the Result a call returned to    *)
(* its caller, NoRes when none is pending.  sent is the sequence of        *)
(* datagrams handed to send_to; seen is the set of responses decoded, and  *)
(* exhausted tells that a call made by resolve itself has found depth 0.   *)
(***************************************************************************)
MaxDepth == 2

QueryId    == 4660
DnsPort    == 53
RootServer == <<198, 41, 0, 4>>

MaxDepthReached == "max recursion depth reached"
NoValidAnswer   == "no valid answer found"
CantReadPacket  == "can't read DNS packet"

\* A depth test that never stops the recursion
depth_below_zero(depth) == depth < 0

depth_exhausted(depth) == depth = 0

\* The error of line 41 in the place of the error of line 161
depth_error == Err(MaxDepthReached, 0)

no_valid_answer == Err(NoValidAnswer, 0)

\* inspect: the A, AAAA and CNAME rdata of the answers, in order
Triple(ipv4, ipv6, cnames) == [ipv4 |-> ipv4, ipv6 |-> ipv6, cnames |-> cnames]

RDataOf(records, tag) ==
    LET sel == SelectSeq(records, LAMBDA r : r.rdata.tag = tag)
    IN  [i \in 1..Len(sel) |-> sel[i].rdata]

inspect(answers) ==
    Triple(RDataOf(answers, "A"), RDataOf(answers, "AAAA"),
           RDataOf(answers, "CNAME"))

\* A test that also accepts a result with CNAME records only
has_any_record(t) == t.ipv4 # <<>> \/ t.ipv6 # <<>> \/ t.cnames # <<>>

HasAddress(t) == t.ipv4 # <<>> \/ t.ipv6 # <<>>

\* The NS names of the authorities and the A addresses of the additionals
ns_names(res) ==
    LET sel == SelectSeq(res.authorities,
                         LAMBDA r : r.atype = 2 /\ r.rdata.tag = "NS")
    IN  [i \in 1..Len(sel) |-> sel[i].rdata.v]

glue_addresses_reversed(res) ==
    LET sel == SelectSeq(res.additionals,
                         LAMBDA r : r.atype = 1 /\ r.rdata.tag = "A")
    IN  [i \in 1..Len(sel) |-> sel[Len(sel) + 1 - i].rdata.v]

glue_addresses(res) ==
    LET sel == SelectSeq(res.additionals,
                         LAMBDA r : r.atype = 1 /\ r.rdata.tag = "A")
    IN  [i \in 1..Len(sel) |-> sel[i].rdata.v]

\* The addresses of the RData::A values of a result
a_values(ipv4) ==
    LET sel == SelectSeq(ipv4, LAMBDA r : r.tag = "A")
    IN  [i \in 1..Len(sel) |-> sel[i].v]

Frame(domain, address, depth) ==
    [domain |-> domain, address |-> address, depth |-> depth, pc |-> "entry",
     cname |-> <<>>, addresses |-> <<>>, authorities |-> <<>>, ips |-> <<>>,
     gi |-> 0, ai |-> 0, ii |-> 0]

Top    == stack[Len(stack)]
Callers == SubSeq(stack, 1, Len(stack) - 1)

Running(pc) == stack # <<>> /\ retval = NoRes /\ Top.pc = pc
Resumed(pc) == stack # <<>> /\ retval # NoRes /\ Top.pc = pc

\* The running frame becomes f
Continue(f) ==
    /\ stack' = Append(Callers, f)
    /\ retval' = NoRes

\* The running frame becomes f and awaits resolve(domain, address, depth)
Await(f, domain, address, depth) ==
    /\ stack' = Append(Append(Callers, f), Frame(domain, address, depth))
    /\ retval' = NoRes

\* The running frame returns r to its caller
Return(r) ==
    /\ stack' = Callers
    /\ retval' = r

(***************************************************************************)
(* Inputs of the resolver: the names "a", "c", "n" and ".", and the        *)
(* responses a server may give to a query                                  *)
(***************************************************************************)
NameC == <<99>>
NameN == <<110>>

Domains == {NameA, Root}

\* req.encode()?.data for each name a call of the model is made for
QueryBytes ==
    [domain \in Domains \cup {NameC, NameN} |->
        encode(new_a_question(domain, QueryId))]

\* The datagram of contact(&req.encode()?.data, "{address}:53", ..)
Datagram(domain, address) ==
    [ip |-> address, port |-> DnsPort, bytes |-> QueryBytes[domain]]

Glue1   == <<192, 5, 6, 30>>
Glue2   == <<192, 5, 6, 31>>
Address == <<203, 0, 113, 7>>
Address6 == <<8193, 3512, 0, 0, 0, 0, 0, 1>>

Response(answers, authorities, additionals) ==
    Dns(QueryId, [NoFlags EXCEPT !.qr = TRUE], 0, Len(answers),
        Len(authorities), Len(additionals), <<>>, answers, authorities,
        additionals)

ARecord(name, ip)      == AnswerRecord(name, 1, 1, U32(60), 4, RData("A", ip))
NSRecord(name, ns)     == AnswerRecord(name, 2, 1, U32(60), 3, RData("NS", ns))
CNAMERecord(name, cn)  == AnswerRecord(name, 5, 1, U32(60), 3, RData("CNAME", cn))
AAAARecord(name, ip)   == AnswerRecord(name, 28, 1, U32(60), 16, RData("AAAA", ip))

DirectAnswer     == Response(<<ARecord(NameA, Address)>>, <<>>, <<>>)
AliasAnswer      == Response(<<CNAMERecord(NameA, NameC)>>, <<>>, <<>>)
GlueReferral     == Response(<<>>, <<NSRecord(NameA, NameN)>>,
                             <<ARecord(NameN, Glue1), ARecord(NameN, Glue2)>>)
GluelessReferral == Response(<<>>, <<NSRecord(NameA, NameN)>>, <<>>)
EmptyResponse    == Response(<<>>, <<>>, <<>>)

\* A response without answers and without authorities whose additional
\* section still holds an address
StrayGlue == Response(<<>>, <<>>, <<ARecord(NameN, Glue1)>>)

\* A response with rcode 2 (SERVFAIL) that carries an AAAA answer; no other
\* response has an AAAA record.
ServFailAnswer ==
    [Response(<<AAAARecord(NameA, Address6)>>, <<>>, <<>>)
        EXCEPT !.header.flags.rcode = 2]

Responses ==
    {DirectAnswer, AliasAnswer, GlueReferral, GluelessReferral, EmptyResponse,
     ServFailAnswer, StrayGlue}

(***************************************************************************)
(* SpecResolve: one call resolve(domain, address, depth)                   *)
(***************************************************************************)
InitResolve ==
    /\ call \in [domain : Domains, address : {RootServer}, depth : 0..MaxDepth]
    /\ stack = <<Frame(call.domain, call.address, call.depth)>>
    /\ sent = <<>> /\ retval = NoRes /\ seen = {} /\ exhausted = FALSE
    /\ FlagsIdle /\ NameIdle /\ CodecIdle /\ SrvIdle

\* Line 40: depth == 0
ResolveDepthZero ==
    /\ Running("entry")
    /\ depth_exhausted(Top.depth)
    /\ Return(Err(MaxDepthReached, 0))
    /\ exhausted' = (exhausted \/ Len(stack) > 1)
    /\ UNCHANGED <<call, sent, seen, flagVars, nameVars, codecVars, srvVars>>

\* Lines 48-52: the query is encoded and sent
ResolveQuery ==
    /\ Running("entry")
    /\ ~depth_exhausted(Top.depth)
    /\ sent' = Append(sent, Datagram(Top.domain, Top.address))
    /\ Continue([Top EXCEPT !.pc = "await"])
    /\ UNCHANGED <<call, seen, exhausted, flagVars, nameVars, codecVars,
                   srvVars>>

\* Line 52: recv_from fails
ContactFails ==
    /\ Running("await")
    /\ Return(Err(CantReadPacket, 0))
    /\ UNCHANGED <<call, sent, seen, exhausted, flagVars, nameVars, codecVars,
                   srvVars>>

\* Line 53: the received bytes do not decode
DecodeFails ==
    /\ Running("await")
    /\ Return(Err("InvalidField", 0))
    /\ UNCHANGED <<call, sent, seen, exhausted, flagVars, nameVars, codecVars,
                   srvVars>>

\* Lines 53-71: the response has A or AAAA answers
AcceptAnswer ==
    /\ Running("await")
    /\ \E res \in Responses :
          /\ HasAddress(inspect(res.answers))
          /\ seen' = seen \cup {res}
          /\ Return(Ok(inspect(res.answers), 0))
    /\ UNCHANGED <<call, sent, exhausted, flagVars, nameVars, codecVars,
                   srvVars>>

\* Lines 77-79: no address, the first CNAME is resolved at the same server
FollowCname ==
    /\ Running("await")
    /\ \E res \in Responses :
          /\ ~HasAddress(inspect(res.answers))
          /\ inspect(res.answers).cnames # <<>>
          /\ seen' = seen \cup {res}
          /\ Await([Top EXCEPT !.pc = "tail",
                               !.cname = inspect(res.answers).cnames[1].v],
                   inspect(res.answers).cnames[1].v, Top.address,
                   Top.depth - 1)
    /\ UNCHANGED <<call, sent, exhausted, flagVars, nameVars, codecVars,
                   srvVars>>

\* Lines 84-107: no address and no CNAME, the two lists are collected
Referral ==
    /\ Running("await")
    /\ \E res \in Responses :
          /\ ~HasAddress(inspect(res.answers))
          /\ inspect(res.answers).cnames = <<>>
          /\ seen' = seen \cup {res}
          /\ Continue([Top EXCEPT !.pc = "glue", !.gi = 1,
                                  !.authorities = ns_names(res),
                                  !.addresses = glue_addresses(res)])
    /\ UNCHANGED <<call, sent, exhausted, flagVars, nameVars, codecVars,
                   srvVars>>

\* Lines 112-115: the next glue address, or the end of the loop
TryGlue ==
    /\ Running("glue")
    /\ IF Top.gi <= Len(Top.addresses)
       THEN Await([Top EXCEPT !.pc = "glue_wait"], Top.domain,
                  Top.addresses[Top.gi], Top.depth - 1)
       ELSE Continue([Top EXCEPT !.pc = "ns", !.ai = 1])
    /\ UNCHANGED <<call, sent, seen, exhausted, flagVars, nameVars, codecVars,
                   srvVars>>

GlueResultPropagates ==
    /\ Resumed("glue_wait")
    /\ IF ~retval.ok \/ HasAddress(retval.val)
       THEN Return(retval)
       ELSE IF retval.val.cnames # <<>>
       THEN Await([Top EXCEPT !.pc = "tail", !.cname = retval.val.cnames[1].v],
                  retval.val.cnames[1].v, Top.addresses[Top.gi], Top.depth - 1)
       ELSE Continue([Top EXCEPT !.pc = "glue", !.gi = @ + 1])
    /\ UNCHANGED <<call, sent, seen, exhausted, flagVars, nameVars, codecVars,
                   srvVars>>

\* Lines 113-133: the result of the query at a glue address
GlueResult ==
    /\ Resumed("glue_wait")
    /\ IF retval.ok /\ HasAddress(retval.val)
       THEN Return(retval)
       ELSE IF retval.ok /\ retval.val.cnames # <<>>
       THEN Await([Top EXCEPT !.pc = "tail", !.cname = retval.val.cnames[1].v],
                  retval.val.cnames[1].v, Top.addresses[Top.gi], Top.depth - 1)
       ELSE Continue([Top EXCEPT !.pc = "glue", !.gi = @ + 1])
    /\ UNCHANGED <<call, sent, seen, exhausted, flagVars, nameVars, codecVars,
                   srvVars>>

\* Lines 78 and 131: return resolve(cname, ..).await
TailResult ==
    /\ Resumed("tail")
    /\ Return(retval)
    /\ UNCHANGED <<call, sent, seen, exhausted, flagVars, nameVars, codecVars,
                   srvVars>>

ResolveNSAtServer ==
    /\ Running("ns")
    /\ IF Top.ai <= Len(Top.authorities)
       THEN Await([Top EXCEPT !.pc = "ns_wait"], Top.authorities[Top.ai],
                  Top.address, Top.depth - 1)
       ELSE Return(no_valid_answer)
    /\ UNCHANGED <<call, sent, seen, exhausted, flagVars, nameVars, codecVars,
                   srvVars>>

\* Lines 140-144 and 161: the next name server is resolved at the root
\* server, or no candidate is left
ResolveNS ==
    /\ Running("ns")
    /\ IF Top.ai <= Len(Top.authorities)
       THEN Await([Top EXCEPT !.pc = "ns_wait"], Top.authorities[Top.ai],
                  RootServer, Top.depth - 1)
       ELSE Return(no_valid_answer)
    /\ UNCHANGED <<call, sent, seen, exhausted, flagVars, nameVars, codecVars,
                   srvVars>>

\* Lines 142-146: the addresses of the name server, or the next one
NSResult ==
    /\ Resumed("ns_wait")
    /\ IF retval.ok
       THEN Continue([Top EXCEPT !.pc = "ip", !.ii = 1,
                                 !.ips = a_values(retval.val.ipv4)])
       ELSE Continue([Top EXCEPT !.pc = "ns", !.ai = @ + 1])
    /\ UNCHANGED <<call, sent, seen, exhausted, flagVars, nameVars, codecVars,
                   srvVars>>

\* Lines 146-150: the domain is asked at the next address of the name server
AskNS ==
    /\ Running("ip")
    /\ IF Top.ii <= Len(Top.ips)
       THEN Await([Top EXCEPT !.pc = "ip_wait"], Top.domain, Top.ips[Top.ii],
                  Top.depth - 1)
       ELSE Continue([Top EXCEPT !.pc = "ns", !.ai = @ + 1])
    /\ UNCHANGED <<call, sent, seen, exhausted, flagVars, nameVars, codecVars,
                   srvVars>>

\* Lines 148-155: any Ok result is returned
AskNSResult ==
    /\ Resumed("ip_wait")
    /\ IF retval.ok THEN Return(retval)
       ELSE Continue([Top EXCEPT !.ii = @ + 1, !.pc = "ip"])
    /\ UNCHANGED <<call, sent, seen, exhausted, flagVars, nameVars, codecVars,
                   srvVars>>

NextResolve ==
    \/ ResolveDepthZero \/ ResolveQuery \/ ContactFails \/ DecodeFails
    \/ AcceptAnswer \/ FollowCname \/ Referral \/ TryGlue \/ GlueResult
    \/ TailResult \/ ResolveNS \/ NSResult \/ AskNS \/ AskNSResult

SpecResolve == InitResolve /\ [][NextResolve]_vars

\* The steps a call takes on its own.  The others (ContactFails,
\* DecodeFails, AcceptAnswer, FollowCname, Referral) need recv_from to
\* return, with a datagram or with an error of the operating system.
ResolveStep ==
    \/ ResolveDepthZero \/ ResolveQuery \/ TryGlue \/ GlueResult
    \/ TailResult \/ ResolveNS \/ NSResult \/ AskNS \/ AskNSResult

\* The runtime goes on polling a future that can make progress; nothing
\* makes a server send a datagram.
SpecResolveLive == SpecResolve /\ WF_vars(ResolveStep)

\* The top-level call has returned
Returned == stack = <<>> /\ retval # NoRes

DepthExceeded(r) == ~r.ok /\ r.err = MaxDepthReached
NoAnswer(r)      == ~r.ok /\ r.err = NoValidAnswer

(***************************************************************************)
(* The listener (src/main.rs) and the task it spawns for each query        *)
(* (proc, src/solver.rs).  A datagram of a client is [src, ok, dns]: its   *)
(* source address, whether Dns::decode accepts its bytes, and the message  *)
(* decoded.  A task is [addr, dns, pc, result].                            *)
(***************************************************************************)
NoARecordFound == "no A record found in additional records"

Client1 == [ip |-> <<127, 0, 0, 1>>, port |-> 40001]
Client2 == [ip |-> <<127, 0, 0, 1>>, port |-> 40002]

ClientQuery(id) ==
    Dns(id, [NoFlags EXCEPT !.rd = TRUE], 1, 0, 0, 0,
        <<QueryRecord(NameA, 1, 1)>>, <<>>, <<>>, <<>>)

ClientDatagrams ==
    { [src |-> Client1, ok |-> TRUE, dns |-> ClientQuery(1)],
      [src |-> Client2, ok |-> TRUE, dns |-> ClientQuery(2)],
      [src |-> Client1, ok |-> FALSE, dns |-> <<>>] }

\* The datagrams that reach the socket: some of them, in some order
Arrivals ==
    UNION { {q \in [1..n -> ClientDatagrams] :
                \A i, j \in 1..n : q[i] = q[j] => i = j} : n \in 1..3 }

\* Dns::add_additional
add_additional(dns, additional) ==
    [dns EXCEPT !.additionals = Append(@, additional),
                !.header.ar_count = (Len(dns.additionals) + 1) % 65536]

\* Lines 45-95: recursion is not desired and an OPT record is added
proc_request(dns) ==
    add_additional([dns EXCEPT !.header.flags.rd = FALSE],
                   AnswerRecord(<<>>, 41, 4096, U32(0), 0, EmptyRData))

\* Lines 112-125, 148-161: the first A value of an entry of the map built
\* from the records; the order of the entries of a HashMap is not fixed,
\* so any name with an A value can be the one found.
first_a_of(records, name) ==
    records[CHOOSE i \in 1..Len(records) :
                /\ records[i].aname = name /\ records[i].rdata.tag = "A"
                /\ \A j \in 1..(i - 1) :
                      ~(records[j].aname = name /\ records[j].rdata.tag = "A")
           ].rdata.v

a_record_found(records) ==
    { first_a_of(records, records[i].aname) :
        i \in {k \in 1..Len(records) : records[k].rdata.tag = "A"} }

\* Lines 179-194: the message proc builds from the last response
proc_response(dns, resp) ==
    [dns EXCEPT !.header.flags.qr = TRUE, !.header.flags.aa = TRUE,
                !.header.flags.ra = FALSE, !.header.flags.rcode = 0,
                !.answers = resp.answers, !.authorities = resp.authorities,
                !.additionals = resp.additionals,
                !.header.an_count = Len(resp.answers),
                !.header.ns_count = Len(resp.authorities),
                !.header.ar_count = Len(resp.additionals)]

Task(dns, addr) == [addr |-> addr, dns |-> dns, pc |-> "start", result |-> NoRes]

ToServer(ip, dns) == [to |-> [ip |-> ip, port |-> DnsPort], msg |-> dns]

\* main, line 19: the buffer every datagram is received into, here by what
\* its first size bytes decode to; nothing was received yet
NoDatagram == [ok |-> FALSE, dns |-> <<>>]

\* main, line 22: recv_from overwrites the buffer with the datagram
Received(datagram) == [ok |-> datagram.ok, dns |-> datagram.dns]

InitServer ==
    /\ arrived \in Arrivals /\ listening = TRUE /\ tasks = <<>>
    /\ outgoing = <<>> /\ recv_buf = NoDatagram
    /\ FlagsIdle /\ NameIdle /\ CodecIdle /\ ResIdle

\* main, lines 22-34: a datagram that decodes is given to a new task; the
\* message is decoded from a copy of the bytes received (to_vec) and moved
\* into the task
ListenSpawn ==
    /\ listening /\ arrived # <<>> /\ Head(arrived).ok
    /\ arrived' = Tail(arrived)
    /\ recv_buf' = Received(Head(arrived))
    /\ tasks' = Append(tasks, Task(recv_buf'.dns, Head(arrived).src))
    /\ UNCHANGED <<listening, outgoing, flagVars, nameVars, codecVars, resVars>>

\* main, line 32: a datagram that does not decode is dropped
ListenDrop ==
    /\ listening /\ arrived # <<>> /\ ~Head(arrived).ok
    /\ arrived' = Tail(arrived)
    /\ recv_buf' = Received(Head(arrived))
    /\ UNCHANGED <<listening, tasks, outgoing, flagVars, nameVars, codecVars,
                   resVars>>

\* main, lines 23-27: recv_from fails and main returns; the runtime is
\* dropped and its tasks with it
ListenFails ==
    /\ listening
    /\ listening' = FALSE
    /\ UNCHANGED <<arrived, tasks, outgoing, recv_buf, flagVars, nameVars,
                   codecVars, resVars>>

\* Task i is at pc and the runtime is alive
TaskAt(i, pc) == listening /\ i \in 1..Len(tasks) /\ tasks[i].pc = pc

\* Task i returns r; the JoinHandle of tokio::spawn is dropped by main
TaskReturns(i, r) ==
    tasks' = [tasks EXCEPT ![i].pc = "done", ![i].result = r]

ProcQueryRootShared ==
    \E i \in 1..Len(tasks) :
        /\ TaskAt(i, "start")
        /\ IF recv_buf.ok
           THEN /\ tasks' =
                    [tasks EXCEPT ![i].pc = "root",
                                  ![i].dns = proc_request(recv_buf.dns)]
                /\ outgoing' =
                    Append(outgoing,
                           ToServer(RootServer, proc_request(recv_buf.dns)))
           ELSE /\ TaskReturns(i, Err("InvalidField", 0))
                /\ UNCHANGED outgoing
        /\ UNCHANGED <<arrived, listening, recv_buf, flagVars, nameVars,
                       codecVars, resVars>>

\* proc, lines 45-105: the query goes to the root server
ProcQueryRoot ==
    \E i \in 1..Len(tasks) :
        /\ TaskAt(i, "start")
        /\ tasks' = [tasks EXCEPT ![i].pc = "root",
                                  ![i].dns = proc_request(@)]
        /\ outgoing' = Append(outgoing,
                              ToServer(RootServer, proc_request(tasks[i].dns)))
        /\ UNCHANGED <<arrived, listening, recv_buf, flagVars, nameVars,
                       codecVars, resVars>>

\* proc, lines 105-134 and 134-164: the response of the root server, or of
\* the TLD server, gives the address the same query is sent to next
ProcReferred ==
    \E i \in 1..Len(tasks), res \in Responses :
        /\ TaskAt(i, "root") \/ TaskAt(i, "tld")
        /\ \E address \in a_record_found(res.additionals) :
              /\ tasks' = [tasks EXCEPT
                              ![i].pc = IF @ = "root" THEN "tld" ELSE "auth"]
              /\ outgoing' = Append(outgoing, ToServer(address, tasks[i].dns))
        /\ UNCHANGED <<arrived, listening, recv_buf, flagVars, nameVars,
                       codecVars, resVars>>

\* proc, lines 124-125 and 160-161: the response has no A record among its
\* additional records
ProcNoARecord ==
    \E i \in 1..Len(tasks), res \in Responses :
        /\ TaskAt(i, "root") \/ TaskAt(i, "tld")
        /\ a_record_found(res.additionals) = {}
        /\ TaskReturns(i, Err(NoARecordFound, 0))
        /\ UNCHANGED <<arrived, listening, outgoing, recv_buf, flagVars,
                       nameVars, codecVars, resVars>>

\* proc, lines 105-106, 134-135, 164-165: send_recv or Dns::decode fails
ProcExchangeFails ==
    \E i \in 1..Len(tasks) :
        /\ TaskAt(i, "root") \/ TaskAt(i, "tld") \/ TaskAt(i, "auth")
        /\ \E e \in {CantReadPacket, "InvalidField"} : TaskReturns(i, Err(e, 0))
        /\ UNCHANGED <<arrived, listening, outgoing, recv_buf, flagVars,
                       nameVars, codecVars, resVars>>

\* proc, lines 164-201: the last response is made into the response for
\* the client; its bytes are the value the task returns
ProcFinish ==
    \E i \in 1..Len(tasks), res \in Responses :
        /\ TaskAt(i, "auth")
        /\ TaskReturns(i, Ok(proc_response(tasks[i].dns, res), 0))
        /\ UNCHANGED <<arrived, listening, outgoing, recv_buf, flagVars,
                       nameVars, codecVars, resVars>>

NextServer ==
    \/ ListenSpawn \/ ListenDrop \/ ListenFails \/ ProcQueryRoot
    \/ ProcReferred \/ ProcNoARecord \/ ProcExchangeFails \/ ProcFinish

SpecServer == InitServer /\ [][NextServer]_vars

(***************************************************************************)
(* C3  Flag packing is a bijection on in-range Flags values, and every     *)
(* field occupies exactly its declared bits: qr 15, opcode 14-11, aa 10,   *)
(* tc 9, rd 8, ra 7, z 6-4, rcode 3-0.                                     *)
(***************************************************************************)
DeclaredBits(f) ==
    B2U(f.qr) * 32768 + f.opcode * 2048 + B2U(f.aa) * 1024 + B2U(f.tc) * 512
    + B2U(f.rd) * 256 + B2U(f.ra) * 128 + f.z * 16 + f.rcode

FlagPackingBijection ==
    /\ fpc \in {"packed", "unpacked"} => flagsRaw = DeclaredBits(flagsIn)
    /\ fpc = "unpacked" => flagsOut = flagsIn

FlagsWitness ==
    /\ fpc = "unpacked"
    /\ flagsIn.aa /\ ~flagsIn.tc /\ flagsIn.opcode = 15 /\ flagsIn.z = 5
    /\ flagsOut = flagsIn

(***************************************************************************)
(* C4  Name parser safety: on every byte slice and start position the      *)
(* name decoder returns an error or a name whose labels are at most 63     *)
(* bytes and whose length is at most 255; it never panics and never        *)
(* recurses without bound.                                                 *)
(***************************************************************************)
ValidName(name) ==
    /\ Len(name) <= 255
    /\ \A i \in 1..Len(Split(name)) : Len(Split(name)[i]) <= 63

NameParserSafe ==
    npc = "done" =>
        /\ nres.ok => ValidName(nres.val)
        /\ ~nres.ok => nres.err \in {"EndOfBuffer", "InvalidString"}

(***************************************************************************)
(* C5  Pointer-loop detection: a decode that follows a pointer to an       *)
(* offset it has already visited returns the error InvalidName (the        *)
(* source's InvalidString).                                                *)
(***************************************************************************)
\* The walk the format prescribes from pos; TRUE when it meets a pointer
\* whose target it has decoded from before.
RECURSIVE RevisitsOffset(_, _, _)
RevisitsOffset(d, pos, visited) ==
    IF pos >= Len(d) THEN FALSE
    ELSE LET L == d[pos + 1]
         IN  IF L >= 192 THEN
                 IF pos + 1 >= Len(d) THEN FALSE
                 ELSE LET t == (L - 192) * 256 + d[pos + 2]
                      IN  IF t >= Len(d) THEN FALSE
                          ELSE IF t \in visited THEN TRUE
                          ELSE RevisitsOffset(d, t, visited \cup {t})
             ELSE IF L = 0 \/ L >= 64 THEN FALSE
             ELSE IF pos + 1 + L > Len(d) THEN FALSE
             ELSE IF ~from_utf8_ok(SubSeq(d, pos + 2, pos + 1 + L)) THEN FALSE
             ELSE RevisitsOffset(d, pos + 1 + L, visited)

PointerLoop == RevisitsOffset(data, start, {start})

PointerLoopIsInvalidName ==
    (npc = "done" /\ PointerLoop) => (~nres.ok /\ nres.err = "InvalidString")

(***************************************************************************)
(* C1  Codec round-trip: decoding the encoding of a message whose labels   *)
(* are at most 63 bytes succeeds and gives the message back, except for    *)
(* the header counts, which are the lengths of the four sections.          *)
(***************************************************************************)
Fields(r) == [aname |-> r.aname, atype |-> r.atype, aclass |-> r.aclass,
              ttl |-> r.ttl, rdata |-> r.rdata]

SameRecords(s1, s2) ==
    /\ Len(s1) = Len(s2)
    /\ \A i \in 1..Len(s1) : Fields(s1[i]) = Fields(s2[i])

SameSections(m1, m2) ==
    /\ m1.questions = m2.questions
    /\ SameRecords(m1.answers, m2.answers)
    /\ SameRecords(m1.authorities, m2.authorities)
    /\ SameRecords(m1.additionals, m2.additionals)

CountsDerived(m) ==
    /\ m.header.qd_count = Len(m.questions)
    /\ m.header.an_count = Len(m.answers)
    /\ m.header.ns_count = Len(m.authorities)
    /\ m.header.ar_count = Len(m.additionals)

CodecRoundTrip ==
    (cmode = "msg" /\ cpc \in {"decoded", "reencoded"}) =>
        /\ dec.ok
        /\ dec.val.header.id = msg.header.id
        /\ dec.val.header.flags = msg.header.flags
        /\ SameSections(dec.val, msg)
        /\ CountsDerived(dec.val)

(***************************************************************************)
(* C2  Compression tolerance: replacing a name, or a trailing part of it,  *)
(* by a pointer to an earlier occurrence of the same suffix does not       *)
(* change the names and records the message decodes to.                    *)
(***************************************************************************)
CompressionTolerance ==
    (cmode = "bytes" /\ cpc \in {"decoded", "reencoded"} /\ decPlain.ok) =>
        /\ dec.ok
        /\ SameSections(dec.val, decPlain.val)

(***************************************************************************)
(* C7  Byte-level round-trip: a well-formed uncompressed message whose     *)
(* counts match its sections decodes to the fields it states, and          *)
(* encoding the decoded message yields the same bytes.                     *)
(***************************************************************************)
StatedName(desc) == IF desc.q = <<>> THEN Root ELSE Join(desc.q)

ByteRoundTrip ==
    /\ (cmode = "bytes" /\ cpc \in {"decoded", "reencoded"}) =>
           /\ decPlain.ok
           /\ decPlain.val.header.id = 1
           /\ decPlain.val.header.flags = [NoFlags EXCEPT !.rd = TRUE]
           /\ decPlain.val.questions[1] = QueryRecord(StatedName(msg), 1, 1)
    /\ (cmode = "bytes" /\ cpc = "reencoded") => reenc = plain

(***************************************************************************)
(* C6  Depth bound: a call of resolve with depth 0, the top-level call or  *)
(* a call resolve makes itself, returns the depth error and sends no       *)
(* datagram.                                                               *)
(***************************************************************************)
DepthZeroStep ==
    (Running("entry") /\ Top.depth = 0) =>
        /\ sent' = sent
        /\ stack' = Callers
        /\ DepthExceeded(retval')

DepthBound == [][DepthZeroStep]_vars

DepthBoundWitness ==
    /\ Returned /\ call.depth = 0
    /\ DepthExceeded(retval) /\ sent = <<>>

(***************************************************************************)
(* C8  Referral handling: when the running call is the one resolve made    *)
(* for the first glue address of a referral and it has sent its query,     *)
(* the last datagram goes to that address, port 53, and carries a header   *)
(* with qr = 0, opcode = 0, rd = 0 and one question: the caller's domain,  *)
(* type A, class IN.                                                       *)
(***************************************************************************)
NameLabels(name) == IF name = Root THEN <<>> ELSE Split(name)

\* The bytes after the id of a standard query for name
StandardQuery(name) ==
    <<0, 0, 0, 1, 0, 0, 0, 0, 0, 0>> \o WireName(NameLabels(name))
        \o <<0, 1, 0, 1>>

Caller == stack[Len(stack) - 1]

FirstGlueQuerySent ==
    /\ Len(stack) >= 2 /\ retval = NoRes
    /\ Caller.pc = "glue_wait" /\ Caller.gi = 1
    /\ Top.pc = "await"

ReferralQuery ==
    FirstGlueQuerySent =>
        /\ sent[Len(sent)].ip = Caller.addresses[1]
        /\ sent[Len(sent)].port = 53
        /\ SubSeq(sent[Len(sent)].bytes, 3, Len(sent[Len(sent)].bytes))
               = StandardQuery(Caller.domain)

(***************************************************************************)
(* C9  CNAME chase result: when every call in progress has followed a      *)
(* CNAME and awaits the resolution of its target, a successful result of   *)
(* the innermost resolution, which is the top-level result, has the        *)
(* addresses found and names every CNAME target followed in its cnames.    *)
(***************************************************************************)
ChaseResult ==
    /\ stack # <<>> /\ retval # NoRes /\ retval.ok
    /\ \A i \in 1..Len(stack) : stack[i].pc = "tail"

CnameChaseResult ==
    ChaseResult =>
        /\ HasAddress(retval.val)
        /\ \A i \in 1..Len(stack) :
              \E j \in 1..Len(retval.val.cnames) :
                  retval.val.cnames[j] = RData("CNAME", stack[i].cname)

(***************************************************************************)
(* C10  Depth exhaustion: when every response is a referral to a name      *)
(* server without glue and a call made during the resolution has found     *)
(* depth 0, the top-level call fails with the error of line 161, no valid  *)
(* answer found, and not with the depth error.                             *)
(***************************************************************************)
GluelessExhaustion == Returned /\ exhausted /\ seen = {GluelessReferral}

SuccessHasAddress ==
    (retval # NoRes /\ retval.ok) =>
        (retval.val.ipv4 # <<>> \/ retval.val.ipv6 # <<>>)

\* A success of the top-level call that came from the address of a name
\* server resolved at the root server
SuccessWitness ==
    /\ Returned /\ retval.ok
    /\ Len(sent) >= 3 /\ sent[Len(sent)].ip = Address

(***************************************************************************)
(* C14  The four counts of an encoded header are the lengths of the        *)
(* questions, answers, authorities and additionals of the Message encoded, *)
(* also when the counts stored in its header differ from those lengths.    *)
(***************************************************************************)
WireCount(w, off) == w[off + 1] * 256 + w[off + 2]

EncodeWritesLengths ==
    (cmode = "msg" /\ cpc # "msg") =>
        /\ WireCount(wire, 4) = Len(msg.questions)
        /\ WireCount(wire, 6) = Len(msg.answers)
        /\ WireCount(wire, 8) = Len(msg.authorities)
        /\ WireCount(wire, 10) = Len(msg.additionals)

(***************************************************************************)
(* C16  A length octet with the top bits 10 or 01 (64..191) makes the name *)
(* decoder fail with InvalidName (the source's InvalidString); it is never *)
(* taken as the length of a label.  Stated for the octet the decode starts *)
(* at.                                                                     *)
(***************************************************************************)
ReservedLength(d, pos) == pos < Len(d) /\ d[pos + 1] \in 64..191

ReservedLengthIsInvalidName ==
    (npc = "done" /\ ReservedLength(data, start)) =>
        (~nres.ok /\ nres.err = "InvalidString")

(***************************************************************************)
(* C17  The root name "." is written as exactly one 0 octet: the question  *)
(* of an encoded message whose first question is for "." is that octet     *)
(* followed by the type and the class, and a message received with a lone  *)
(* 0 octet as its question name is encoded again with that single octet.   *)
(***************************************************************************)
RootQuestion(q) == <<0>> \o write_u16(write_u16(<<>>, q.qtype), q.qclass)

RootNameOneOctet ==
    /\ (cmode = "msg" /\ cpc # "msg" /\ msg.questions # <<>>
            /\ msg.questions[1].qname = Root) =>
           SubSeq(wire, 13, 17) = RootQuestion(msg.questions[1])
    /\ (cmode = "bytes" /\ cpc = "reencoded" /\ msg.q = <<>>
            /\ msg.place = "none") =>
           SubSeq(reenc, 13, Len(reenc)) = <<0, 0, 1, 0, 1>>

(***************************************************************************)
(* C18  After decode has read the RData of a record the cursor is at       *)
(* p0 + rdlength, p0 being the position after the rdlength field.  Stated  *)
(* for received messages whose last field is the RData of their one        *)
(* record, where p0 + rdlength is the length of the message: a decode that *)
(* succeeds ends with the cursor at the end of the bytes.                  *)
(***************************************************************************)
EndsWithRData(desc) == desc.place \in {"owner", "ns", "cname", "other"}

RDataCursor ==
    (cmode = "bytes" /\ cpc # "wire" /\ EndsWithRData(msg)) =>
        /\ dec.ok => dec.index = Len(wire)
        /\ decPlain.ok => decPlain.index = Len(plain)

(***************************************************************************)
(* C19  seek(off) on a buffer over a slice of length len fails exactly     *)
(* when off > len: for every off in 0..len it succeeds and the cursor is   *)
(* off, and when it fails the cursor is where it was.                      *)
(***************************************************************************)
SeekFailsBeyondLen ==
    npc = "sought" =>
        /\ nres.ok <=> offset <= Len(data)
        /\ nres.ok => nres.index = offset
        /\ ~nres.ok => nres.index = start

(***************************************************************************)
(* C15  After a successful name decode the cursor is right after the first *)
(* pointer's two octets if the name has a pointer, and right after the     *)
(* terminating zero otherwise; a name that is a pointer in the last two    *)
(* octets of the slice to a zero octet is decoded, with the cursor at the  *)
(* end of the slice.  Stated for DnsReadBuffer::read_str (npc = "done")    *)
(* and for Buffer::read_str (npc = "read").                                *)
(***************************************************************************)
\* The position after the first pointer or after the terminating zero of
\* the name that starts at pos
RECURSIVE NameEnd(_, _)
NameEnd(d, pos) ==
    IF d[pos + 1] >= 192 THEN pos + 2
    ELSE IF d[pos + 1] = 0 THEN pos + 1
    ELSE NameEnd(d, pos + 1 + d[pos + 1])

\* The name at pos is a pointer in the last two octets, to a zero octet
PointerEndsSlice(d, pos) ==
    /\ pos + 2 = Len(d)
    /\ d[pos + 1] >= 192
    /\ PointerAt(d, pos) < Len(d)
    /\ d[PointerAt(d, pos) + 1] = 0

CursorAfterName ==
    npc \in {"done", "read"} =>
        /\ nres.ok => nres.index = NameEnd(data, start)
        /\ PointerEndsSlice(data, start) => nres.ok /\ nres.index = Len(data)

(***************************************************************************)
(* C20  A response whose rcode is not 0 is treated as having no answer:    *)
(* resolve returns no A or AAAA record taken from it.  In the model the    *)
(* AAAA record is in the response with rcode 2 only, so no result has an   *)
(* IPv6 address.                                                           *)
(***************************************************************************)
ErrorResponseNotAnswer ==
    (retval # NoRes /\ retval.ok) => retval.val.ipv6 = <<>>

(***************************************************************************)
(* C13  Per-exchange timeout: a call that waits for the response of a      *)
(* server eventually stops waiting, with a response or with a failure,     *)
(* also when the server never sends a datagram.                            *)
(***************************************************************************)
ExchangeReturns == Running("await") ~> ~Running("await")

(***************************************************************************)
(* C12  Client contract: a client datagram that decodes as a query is      *)
(* answered with exactly one datagram to its source address that echoes    *)
(* the id and the question, has qr = 1 and ra = 1, and has RCODE 0 when    *)
(* the resolution succeeded and RCODE 2 or 3 when it failed.  Stated at    *)
(* the end of the task of the query: when the task has returned, the       *)
(* answer has been sent.                                                   *)
(***************************************************************************)
\* The datagrams sent to the client of task t with the id of its query
Replies(t) ==
    { k \in 1..Len(outgoing) :
        outgoing[k].to = t.addr /\ outgoing[k].msg.header.id = t.dns.header.id }

ContractReply(t, reply) ==
    /\ reply.header.flags.qr /\ reply.header.flags.ra
    /\ reply.questions = t.dns.questions
    /\ t.result.ok => reply.header.flags.rcode = 0
    /\ ~t.result.ok => reply.header.flags.rcode \in {2, 3}

ClientAnswered ==
    \A i \in 1..Len(tasks) :
        tasks[i].pc = "done" =>
            /\ Cardinality(Replies(tasks[i])) = 1
            /\ \A k \in Replies(tasks[i]) : ContractReply(tasks[i], outgoing[k].msg)

(***************************************************************************)
(* C21  A call returns from the answers of a response only the A and AAAA  *)
(* records whose owner name is the queried name, compared without regard   *)
(* to the case of ASCII letters.  Stated for a top-level call that returns *)
(* after one exchange: every address of its result is the rdata of an      *)
(* answer record of the response that is owned by the queried name.        *)
(***************************************************************************)
AsciiLower(name) ==
    [i \in 1..Len(name) |->
        IF name[i] \in 65..90 THEN name[i] + 32 ELSE name[i]]

SameName(a, b) == AsciiLower(a) = AsciiLower(b)

OwnedBy(rdata, qname, res) ==
    \E k \in 1..Len(res.answers) :
        SameName(res.answers[k].aname, qname) /\ res.answers[k].rdata = rdata

AnswerOwnedByQname ==
    (Returned /\ retval.ok /\ Len(sent) = 1) =>
        \A res \in seen :
            /\ \A i \in 1..Len(retval.val.ipv4) :
                  OwnedBy(retval.val.ipv4[i], call.domain, res)
            /\ \A i \in 1..Len(retval.val.ipv6) :
                  OwnedBy(retval.val.ipv6[i], call.domain, res)

(***************************************************************************)
(* C22  A chain of aliases ends by the depth bound alone.  While every     *)
(* response received carries only a CNAME answer, a call with depth d has  *)
(* sent at most d queries, all of them to the server of the call, the      *)
(* first for the queried name and each later one for the first CNAME       *)
(* target of the response before it; and when every exchange was answered  *)
(* the call fails with DepthExceeded after exactly d exchanges.            *)
(***************************************************************************)
OnlyAliases == seen \subseteq {AliasAnswer}

ExchangeFailed(r) == ~r.ok /\ r.err \in {CantReadPacket, "InvalidField"}

CnameChainBounded ==
    OnlyAliases =>
        /\ Len(sent) <= call.depth
        /\ \A i \in 1..Len(sent) :
              /\ sent[i].ip = call.address
              /\ sent[i].bytes =
                    QueryBytes[IF i = 1 THEN call.domain
                               ELSE inspect(AliasAnswer.answers).cnames[1].v]
        /\ (Returned /\ ~ExchangeFailed(retval)) =>
              DepthExceeded(retval) /\ Len(sent) = call.depth

CnameChainWitness ==
    /\ Returned
    /\ seen = {AliasAnswer}
    /\ DepthExceeded(retval)
    /\ Len(sent) = MaxDepth

(***************************************************************************)
(* C23  The glue addresses of a referral are tried one after another in    *)
(* the order of the additional section, each with a call for the same      *)
(* queried name at depth - 1, and the first call that succeeds ends the    *)
(* loop: its result is returned and no query goes to a later glue address. *)
(* In every state, a call in its glue loop holds the A addresses of the    *)
(* additional section of a response in their order there, waits for a call *)
(* for its own name at the address it has reached with depth - 1, and has  *)
(* sent its query to every address before that one; in every step, a       *)
(* successful result handed to the glue loop is returned as it is without  *)
(* a further query.                                                        *)
(***************************************************************************)
WireGlue(i) == GlueReferral.additionals[i].rdata.v

\* The addresses of the A records of the additional section, in wire order
WireOrder(res) ==
    LET at(n) == CHOOSE i \in 1..Len(res.additionals) :
                    /\ res.additionals[i].atype = 1
                    /\ Cardinality({j \in 1..i : res.additionals[j].atype = 1}) = n
        count == Cardinality({j \in 1..Len(res.additionals) :
                                 res.additionals[j].atype = 1})
    IN  [n \in 1..count |-> res.additionals[at(n)].rdata.v]

GlueCallInOrder ==
    \A k \in 1..(Len(stack) - 1) :
        stack[k].pc = "glue_wait" =>
            /\ stack[k].gi \in 1..Len(stack[k].addresses)
            /\ stack[k + 1].domain = stack[k].domain
            /\ stack[k + 1].address = stack[k].addresses[stack[k].gi]
            /\ stack[k + 1].depth = stack[k].depth - 1

GlueQueryInOrder ==
    \A k \in 1..Len(stack) :
        stack[k].pc \in {"glue", "glue_wait"} =>
            /\ \E res \in seen : stack[k].addresses = WireOrder(res)
            /\ stack[k].depth > 1 =>
                  \A i \in 1..(stack[k].gi - 1) :
                      \E m \in 1..Len(sent) :
                          sent[m] = Datagram(stack[k].domain,
                                             stack[k].addresses[i])

FirstGlueReturned ==
    (Resumed("glue_wait") /\ retval.ok) =>
        /\ stack' = Callers
        /\ retval' = retval
        /\ sent' = sent

GlueInWireOrder ==
    [](GlueCallInOrder /\ GlueQueryInOrder) /\ [][FirstGlueReturned]_vars

GlueWitness ==
    /\ Returned
    /\ retval.ok
    /\ Len(sent) = 3
    /\ sent[2].ip = WireGlue(1)
    /\ sent[3].ip = WireGlue(2)
    /\ sent[3].bytes = QueryBytes[call.domain]

(***************************************************************************)
(* C24  The name servers of a referral are resolved only after every glue  *)
(* address was tried without success.  Each NS name, in the order of the   *)
(* authority section, is resolved by a call that starts at the root server *)
(* 198.41.0.4; the queried name is then asked at each IPv4 address that    *)
(* call returned, in order, and the first success is returned.  In every   *)
(* state a call that has reached its name servers has no untried glue      *)
(* address, waits for calls of exactly this shape, and no datagram has     *)
(* gone to an IPv6 address.                                                *)
(***************************************************************************)
InNSPhase(f) == f.pc \in {"ns", "ns_wait", "ip", "ip_wait"}

NSAfterGlue ==
    \A k \in 1..Len(stack) :
        InNSPhase(stack[k]) => stack[k].gi > Len(stack[k].addresses)

NSCallAtRoot ==
    \A k \in 1..(Len(stack) - 1) :
        stack[k].pc = "ns_wait" =>
            /\ stack[k].ai \in 1..Len(stack[k].authorities)
            /\ stack[k + 1].domain = stack[k].authorities[stack[k].ai]
            /\ stack[k + 1].address = <<198, 41, 0, 4>>
            /\ stack[k + 1].depth = stack[k].depth - 1

NSAddressCall ==
    \A k \in 1..(Len(stack) - 1) :
        stack[k].pc = "ip_wait" =>
            /\ stack[k].ii \in 1..Len(stack[k].ips)
            /\ stack[k + 1].domain = stack[k].domain
            /\ stack[k + 1].address = stack[k].ips[stack[k].ii]
            /\ stack[k + 1].depth = stack[k].depth - 1

IPv4Destinations ==
    \A n \in 1..Len(sent) : Len(sent[n].ip) = 4 /\ sent[n].ip # Address6

NSAddressesObtained ==
    (Resumed("ns_wait") /\ retval.ok) =>
        /\ Len(stack') = Len(stack)
        /\ stack'[Len(stack')].pc = "ip"
        /\ stack'[Len(stack')].ii = 1
        /\ stack'[Len(stack')].ips =
              [i \in 1..Len(retval.val.ipv4) |-> retval.val.ipv4[i].v]

FirstNSAnswerReturned ==
    (Resumed("ip_wait") /\ retval.ok) =>
        stack' = Callers /\ retval' = retval /\ sent' = sent

TopNext == stack'[Len(stack')]

BranchAbandoned(wait, loop) ==
    (Resumed(wait) /\ ~retval.ok) =>
        /\ Len(stack') = Len(stack)
        /\ retval' = NoRes
        /\ sent' = sent
        /\ TopNext.pc = loop

CandidateFailureLocal ==
    /\ BranchAbandoned("glue_wait", "glue")
    /\ (Resumed("glue_wait") /\ ~retval.ok) => TopNext.gi = Top.gi + 1
    /\ BranchAbandoned("ns_wait", "ns")
    /\ (Resumed("ns_wait") /\ ~retval.ok) => TopNext.ai = Top.ai + 1
    /\ BranchAbandoned("ip_wait", "ip")
    /\ (Resumed("ip_wait") /\ ~retval.ok) => TopNext.ii = Top.ii + 1

FailsWhenExhausted ==
    (/\ stack # <<>>
     /\ Top.pc \in {"glue", "glue_wait", "ns", "ns_wait", "ip", "ip_wait"}
     /\ Len(stack') < Len(stack)
     /\ ~retval'.ok) =>
        /\ Top.gi > Len(Top.addresses)
        /\ Top.ai > Len(Top.authorities)
        /\ NoAnswer(retval')

DeadEnd(res) ==
    /\ res.authorities = <<>>
    /\ ~HasAddress(inspect(res.answers))
    /\ inspect(res.answers).cnames = <<>>

DeadEndFailsAtOnce ==
    (seen # {} /\ \A res \in seen : DeadEnd(res)) =>
        /\ Len(sent) = 1
        /\ Returned => NoAnswer(retval)

(***************************************************************************)
(* C27  Only the datagram received is decoded.  A response that resolve    *)
(* decodes successfully is the message its datagram encodes: the datagram  *)
(* alone decodes, and to the same questions and records.  A datagram whose *)
(* counts promise more than its bytes hold is a failed exchange.           *)
(***************************************************************************)
DecodesDatagramOnly ==
    (cpc = "received" /\ decPlain.ok) =>
        /\ decode(plain).ok
        /\ decode(plain).val = decPlain.val

(***************************************************************************)
(* C28  A label of more than 63 bytes is an encoding error.  write_str     *)
(* fails with LabelTooLong for a name with such a label, and encoding a    *)
(* message that contains such a name fails with it too: whenever encode    *)
(* has returned bytes for a message, no name of the message has a label    *)
(* longer than 63 bytes.                                                   *)
(***************************************************************************)
LabelTooLong(name) == \E j \in 1..Len(Split(name)) : Len(Split(name)[j]) > 63

RecordNames(a) ==
    {a.aname} \cup (IF a.rdata.tag \in {"NS", "CNAME"} THEN {a.rdata.v} ELSE {})

MessageNames(m) ==
    {m.questions[i].qname : i \in 1..Len(m.questions)}
    \cup UNION {RecordNames(m.answers[i]) : i \in 1..Len(m.answers)}
    \cup UNION {RecordNames(m.authorities[i]) : i \in 1..Len(m.authorities)}
    \cup UNION {RecordNames(m.additionals[i]) : i \in 1..Len(m.additionals)}

\* cpc = "wire" in mode "msg": encode(msg) has returned Ok with the bytes
\* in wire
Encoded == cmode = "msg" /\ cpc \in {"wire", "decoded", "reencoded"}

LongLabelNotEncoded ==
    /\ \A n \in LongLabelNames : ~write_str(<<>>, n).ok
    /\ Encoded => \A n \in MessageNames(msg) : ~LabelTooLong(n)

(***************************************************************************)
(* C29  The cursor of a read buffer stays inside the buffer: after every   *)
(* sequence of set_index, read_u8, read_u16, read_u32, read_n_bytes and    *)
(* read_str, whether they succeed or fail, 0 <= index <= len.  A read of N *)
(* bytes (1, 2, 4, or the n of read_n_bytes) succeeds and moves the cursor *)
(* by exactly N when N bytes remain, and otherwise fails with EndOfBuffer  *)
(* and leaves the cursor where it was.                                     *)
(***************************************************************************)
CursorInBounds == npc \in CursorOps => (0 <= start /\ start <= Len(data))

FixedWidthRead ==
    npc' \in {"read_u8", "read_u16", "read_u32", "read_n_bytes"} =>
        IF start + offset' <= Len(data)
        THEN nres'.ok /\ start' = start + offset'
        ELSE ~nres'.ok /\ nres'.err = "EndOfBuffer" /\ start' = start

CursorInvariant == []CursorInBounds /\ [][FixedWidthRead]_vars

\* A read_u16 that failed one byte before the end, after a read that
\* succeeded
CursorWitness ==
    /\ npc = "read_u16"
    /\ ~nres.ok
    /\ start = Len(data) - 1
    /\ start > 0

(***************************************************************************)
(* C30  Requests are isolated.  The message a task works on is the one     *)
(* decoded from the datagram its client sent; receiving a later datagram   *)
(* into the buffer the listener reuses changes no task; every message a    *)
(* task sends upstream and the response it returns carry the id and the    *)
(* question of its own request, however the tasks interleave.              *)
(***************************************************************************)
OwnRequest(t, dns) ==
    \E d \in ClientDatagrams :
        /\ d.ok
        /\ d.src = t.addr
        /\ dns.header.id = d.dns.header.id
        /\ dns.questions = d.dns.questions

TaskOwnsMessage ==
    \A i \in 1..Len(tasks) :
        /\ OwnRequest(tasks[i], tasks[i].dns)
        /\ (tasks[i].pc = "done" /\ tasks[i].result.ok) =>
              OwnRequest(tasks[i], tasks[i].result.val)

UpstreamOwned ==
    \A k \in 1..Len(outgoing) :
        \E i \in 1..Len(tasks) :
            tasks[i].pc # "start" /\ OwnRequest(tasks[i], outgoing[k].msg)

ReceiveKeepsTasks ==
    recv_buf' # recv_buf => \A i \in 1..Len(tasks) : tasks'[i] = tasks[i]

RequestIsolation ==
    [](TaskOwnsMessage /\ UpstreamOwned) /\ [][ReceiveKeepsTasks]_vars

\* The first task has answered its own request although the buffer holds
\* the request of the other client
IsolationWitness ==
    /\ Len(tasks) = 2
    /\ tasks[1].pc = "done"
    /\ tasks[1].result.ok
    /\ recv_buf.ok
    /\ recv_buf.dns.header.id # tasks[1].dns.header.id
    /\ OwnRequest(tasks[1], tasks[1].result.val)

====
